---- MODULE Spec2Model ----
(***************************************************************************)
(* Model of scripts/rust_lint_fix.rs: a command-line stub that takes a     *)
(* file path, prints a header naming it, reads the file as text and prints *)
(* a prefix of its contents.                                               *)
(*                                                                         *)
(* Strings are modelled as Rust holds them: sequences of UTF-8 bytes.      *)
(* Process arguments and file contents are byte sequences; turning them    *)
(* into a String validates the bytes (env::args, fs::read_to_string), and  *)
(* slicing a String by a byte index panics off a character boundary.       *)
(* A panic of the main thread writes a message to the error stream and     *)
(* ends the process with status 101.                                       *)
(* The output streams are assumed writable.                                *)
(***************************************************************************)
EXTENDS Integers, Sequences

VARIABLES
    argv,         \* the process arguments as the OS passes them (byte strings)
    fs,           \* the file system: path -> file
    args,         \* main's `args: Vec<String>`
    file_path,    \* main's `file_path`
    contents,     \* the Result of fs::read_to_string(file_path)
    stdout,       \* lines written to standard output
    stderr,       \* lines written to the error stream
    exit_status,  \* the process's exit status, NoStatus while it runs
    fsops,        \* the file-system operations performed so far
    pc            \* main's position

vars == <<argv, fs, args, file_path, contents, stdout, stderr, exit_status, fsops, pc>>

---------------------------------------------------------------------------
(* Bounds of the checked instances *)

MaxArgs == 3
Slack == 4
MaxMulti == 2
MaxSuffix == 2

(* Program constants *)

PreviewLimit == 100
UsageExitCode == 1
SuccessExitCode == 0
PanicExitCode == 101

NoStatus == -1

Min(a, b) == IF a < b THEN a ELSE b

---------------------------------------------------------------------------
(* UTF-8, as the standard library's str::from_utf8 validates it *)

IsContinuation(b) == b >= 128 /\ b <= 191

\* UTF8_CHAR_WIDTH: the length of the sequence a lead byte starts, 0 if none
Utf8CharWidth(b) ==
    IF b < 128 THEN 1
    ELSE IF b >= 194 /\ b <= 223 THEN 2
    ELSE IF b >= 224 /\ b <= 239 THEN 3
    ELSE IF b >= 240 /\ b <= 244 THEN 4
    ELSE 0

\* the range the second byte of a sequence must lie in, given its lead byte
SecondByteOk(first, next) ==
    CASE first = 224 -> next >= 160 /\ next <= 191
      [] first = 237 -> next >= 128 /\ next <= 159
      [] first = 240 -> next >= 144 /\ next <= 191
      [] first = 244 -> next >= 128 /\ next <= 143
      [] OTHER -> IsContinuation(next)

\* whether a well-formed sequence starts at index i (1-based) of bytes
SequenceOkAt(bytes, i) ==
    LET w == Utf8CharWidth(bytes[i])
    IN  /\ w > 0
        /\ i + w - 1 <= Len(bytes)
        /\ w >= 2 => SecondByteOk(bytes[i], bytes[i + 1])
        /\ \A j \in (i + 2)..(i + w - 1) : IsContinuation(bytes[j])

RECURSIVE ValidFrom(_, _)
ValidFrom(bytes, i) ==
    IF i > Len(bytes) THEN TRUE
    ELSE IF SequenceOkAt(bytes, i) THEN ValidFrom(bytes, i + Utf8CharWidth(bytes[i]))
    ELSE FALSE

IsValidUtf8(bytes) == ValidFrom(bytes, 1)

\* the code point of the well-formed sequence starting at index i
CodePointAt(bytes, i) ==
    LET w == Utf8CharWidth(bytes[i])
    IN  CASE w = 1 -> bytes[i]
          [] w = 2 -> (bytes[i] % 32) * 64 + (bytes[i + 1] % 64)
          [] w = 3 -> (bytes[i] % 16) * 4096 + (bytes[i + 1] % 64) * 64
                      + (bytes[i + 2] % 64)
          [] OTHER -> (bytes[i] % 8) * 262144 + (bytes[i + 1] % 64) * 4096
                      + (bytes[i + 2] % 64) * 64 + (bytes[i + 3] % 64)

RECURSIVE CharsFrom(_, _)
CharsFrom(bytes, i) ==
    IF i > Len(bytes) THEN <<>>
    ELSE <<CodePointAt(bytes, i)>> \o CharsFrom(bytes, i + Utf8CharWidth(bytes[i]))

\* str::chars of a valid string: its characters (code points) in order
Chars(bytes) == CharsFrom(bytes, 1)

\* char::encode_utf8
Utf8Encode(cp) ==
    IF cp < 128 THEN <<cp>>
    ELSE IF cp < 2048 THEN <<192 + (cp \div 64), 128 + (cp % 64)>>
    ELSE IF cp < 65536 THEN
        <<224 + (cp \div 4096), 128 + ((cp \div 64) % 64), 128 + (cp % 64)>>
    ELSE <<240 + (cp \div 262144), 128 + ((cp \div 4096) % 64),
           128 + ((cp \div 64) % 64), 128 + (cp % 64)>>

RECURSIVE EncodeFrom(_, _)
EncodeFrom(chars, i) ==
    IF i > Len(chars) THEN <<>>
    ELSE Utf8Encode(chars[i]) \o EncodeFrom(chars, i + 1)

\* the bytes of a text file holding the characters chars
Utf8Bytes(chars) == EncodeFrom(chars, 1)

\* str::is_char_boundary(index), index a 0-based byte offset
IsCharBoundary(bytes, index) ==
    \/ index = 0
    \/ index = Len(bytes)
    \/ index < Len(bytes) /\ ~IsContinuation(bytes[index + 1])

---------------------------------------------------------------------------
(* The inputs of the checked instances: argument lists and file systems *)

ProgName == <<112>>        \* "p"
PathA == <<102>>           \* "f"
PathB == <<103>>           \* "g"
NonUnicodeArg == <<255>>   \* an argument that is not valid Unicode

OsArgs == {ProgName, PathA, PathB, NonUnicodeArg}

ArgvSet == UNION {[1..n -> OsArgs] : n \in 0..MaxArgs}

\* k ASCII digits, "0123456789012..."
Pad(k) == [i \in 1..k |-> 48 + ((i - 1) % 10)]

Rep(c, m) == [i \in 1..m |-> c]

\* e-acute (2 bytes), the euro sign (3 bytes), an emoji (4 bytes)
MultiChars == {233, 8364, 128512}

\* lengths of the ASCII prefix: the shortest, and those around the limit
PrefixLens == {0, 1} \cup ((PreviewLimit - Slack)..(PreviewLimit + 1))

Texts ==
    {Pad(k) \o Rep(c, m) \o Pad(n) :
        k \in PrefixLens, c \in MultiChars, m \in 0..MaxMulti, n \in 0..MaxSuffix}

\* byte strings that are not UTF-8: a stray byte, a lone continuation byte, a
\* truncated sequence, an overlong form, a surrogate
NonTextTails ==
    {<<255>>, <<128>>, <<195>>, <<226, 130>>, <<192, 128>>, <<237, 160, 128>>}

NonTexts == {Utf8Bytes(Pad(k)) \o t : k \in {0, 1}, t \in NonTextTails}

AbsentFile == [kind |-> "absent", readable |-> FALSE, bytes |-> <<>>]

TextFile(chars) == [kind |-> "file", readable |-> TRUE, bytes |-> Utf8Bytes(chars)]

FilesA ==
    {AbsentFile}
    \cup {TextFile(t) : t \in Texts}
    \cup {[kind |-> "file", readable |-> TRUE, bytes |-> b] : b \in NonTexts}
    \cup {[kind |-> "file", readable |-> FALSE, bytes |-> Utf8Bytes(Pad(1))]}

FilesB == {AbsentFile, TextFile(<<98>>)}

FsSet == {[p \in {PathA, PathB} |-> IF p = PathA THEN a ELSE b] : a \in FilesA, b \in FilesB}

\* the file a path names; a path the file system does not hold names no file
Lookup(fsys, path) == IF path \in DOMAIN fsys THEN fsys[path] ELSE AbsentFile

---------------------------------------------------------------------------
(* The program *)

ReadOk(text) == [ok |-> TRUE, text |-> text, err |-> "none"]
ReadErr(e) == [ok |-> FALSE, text |-> <<>>, err |-> e]

\* fs::read_to_string(path): the file's bytes as a String, or an error
ReadToString(fsys, path) ==
    LET f == Lookup(fsys, path)
    IN  IF f.kind = "absent" THEN ReadErr("NotFound")
        ELSE IF ~f.readable THEN ReadErr("PermissionDenied")
        ELSE IF ~IsValidUtf8(f.bytes) THEN ReadErr("InvalidData")
        ELSE ReadOk(f.bytes)

\* a read that opens the file for writing first, which truncates it
FsAfterReadTruncating(fsys, path) ==
    IF path \in DOMAIN fsys /\ fsys[path].kind = "file" /\ fsys[path].readable
    THEN [fsys EXCEPT ![path].bytes = <<>>]
    ELSE fsys

\* read_to_string opens the file read-only: the file system after the call
FsAfterRead(fsys, path) == fsys

ReadOp(path) == [op |-> "read", path |-> path]

Line(fmt, arg) == [fmt |-> fmt, arg |-> arg]

UsageMsg == Line("Usage: rust_lint_fix <file>", <<>>)
HeaderMsg(path) ==
    Line("[Rust Lint Fixer] Would lint and fix errors in file: {}", path)
PreviewMsg(text) == Line("File contents (first 100 chars): {}", text)
FallbackMsg == Line("Could not read file.", <<>>)
PanicMsg == Line("thread 'main' panicked", <<>>)

\* the end of the slice &contents[..contents.len().min(100)], a byte offset
SliceEnd(text) == Min(Len(text), PreviewLimit)

\* &text[..end]
SliceTo(text, end) == SubSeq(text, 1, end)

Init ==
    /\ argv \in ArgvSet
    /\ fs \in FsSet
    /\ args = <<>>
    /\ file_path = <<>>
    /\ contents = ReadErr("unread")
    /\ stdout = <<>>
    /\ stderr = <<>>
    /\ exit_status = NoStatus
    /\ fsops = <<>>
    /\ pc = "collect"

\* a panic of the main thread: its message on the error stream, status 101
Panic ==
    /\ stderr' = Append(stderr, PanicMsg)
    /\ exit_status' = PanicExitCode
    /\ pc' = "exited"

\* env::args().collect(): the arguments as Strings; panics on one that is
\* not valid Unicode
CollectArgs ==
    /\ pc = "collect"
    /\ IF \A i \in 1..Len(argv) : IsValidUtf8(argv[i])
       THEN /\ args' = argv
            /\ pc' = "check"
            /\ UNCHANGED <<stderr, exit_status>>
       ELSE /\ Panic
            /\ UNCHANGED args
    /\ UNCHANGED <<argv, fs, file_path, contents, stdout, fsops>>

\* args.len() < 2: the usage message and process::exit(1)
UsageExit ==
    /\ pc = "check"
    /\ Len(args) < 2
    /\ stderr' = Append(stderr, UsageMsg)
    /\ exit_status' = UsageExitCode
    /\ pc' = "exited"
    /\ UNCHANGED <<argv, fs, args, file_path, contents, stdout, fsops>>

\* the argument main takes as the path: args[1], 0-based
PathArg(a) == a[2]

\* file_path = &args[1], and the header line
PrintHeader ==
    /\ pc = "check"
    /\ Len(args) >= 2
    /\ file_path' = PathArg(args)
    /\ stdout' = Append(stdout, HeaderMsg(file_path'))
    /\ pc' = "read"
    /\ UNCHANGED <<argv, fs, args, contents, stderr, exit_status, fsops>>

\* fs::read_to_string(file_path)
ReadFile ==
    /\ pc = "read"
    /\ contents' = ReadToString(fs, file_path)
    /\ fs' = FsAfterRead(fs, file_path)
    /\ fsops' = Append(fsops, ReadOp(file_path))
    /\ pc' = IF contents'.ok THEN "preview" ELSE "fallback"
    /\ UNCHANGED <<argv, args, file_path, stdout, stderr, exit_status>>

\* the Ok branch: the slice of the contents, which panics when its end is
\* not on a character boundary, and the preview line
PrintPreview ==
    /\ pc = "preview"
    /\ IF IsCharBoundary(contents.text, SliceEnd(contents.text))
       THEN /\ stdout' = Append(stdout,
                            PreviewMsg(SliceTo(contents.text, SliceEnd(contents.text))))
            /\ pc' = "return"
            /\ UNCHANGED <<stderr, exit_status>>
       ELSE /\ Panic
            /\ UNCHANGED stdout
    /\ UNCHANGED <<argv, fs, args, file_path, contents, fsops>>

\* the else branch: the fallback line
PrintFallback ==
    /\ pc = "fallback"
    /\ stdout' = Append(stdout, FallbackMsg)
    /\ pc' = "return"
    /\ UNCHANGED <<argv, fs, args, file_path, contents, stderr, exit_status, fsops>>

\* a return that reports a failed read in the exit status
ReturnFailingOnReadError ==
    /\ pc = "return"
    /\ exit_status' = IF contents.ok THEN SuccessExitCode ELSE UsageExitCode
    /\ pc' = "exited"
    /\ UNCHANGED <<argv, fs, args, file_path, contents, stdout, stderr, fsops>>

\* main returns: the process exits with status 0
Return ==
    /\ pc = "return"
    /\ exit_status' = SuccessExitCode
    /\ pc' = "exited"
    /\ UNCHANGED <<argv, fs, args, file_path, contents, stdout, stderr, fsops>>

Next ==
    \/ CollectArgs
    \/ UsageExit
    \/ PrintHeader
    \/ ReadFile
    \/ PrintPreview
    \/ PrintFallback
    \/ Return

Spec == Init /\ [][Next]_vars

\* the runs whose arguments are all valid Unicode
UnicodeInit == Init /\ \A i \in 1..Len(argv) : IsValidUtf8(argv[i])

UnicodeSpec == UnicodeInit /\ [][Next]_vars

---------------------------------------------------------------------------
(* main as a function of the invocation: what one run leaves on the streams *)
(* and its exit status                                                      *)

Outcome(out, err, status) == [stdout |-> out, stderr |-> err, status |-> status]

RunMain(av, fsys) ==
    IF \E i \in 1..Len(av) : ~IsValidUtf8(av[i])
    THEN Outcome(<<>>, <<PanicMsg>>, PanicExitCode)
    ELSE IF Len(av) < 2
    THEN Outcome(<<>>, <<UsageMsg>>, UsageExitCode)
    ELSE LET path == PathArg(av)
             r == ReadToString(fsys, path)
         IN  IF ~r.ok
             THEN Outcome(<<HeaderMsg(path), FallbackMsg>>, <<>>, SuccessExitCode)
             ELSE IF IsCharBoundary(r.text, SliceEnd(r.text))
             THEN Outcome(<<HeaderMsg(path),
                            PreviewMsg(SliceTo(r.text, SliceEnd(r.text)))>>,
                          <<>>, SuccessExitCode)
             ELSE Outcome(<<HeaderMsg(path)>>, <<PanicMsg>>, PanicExitCode)

---------------------------------------------------------------------------
(* Vocabulary of the properties *)

Done == pc = "exited"

Observed == Outcome(stdout, stderr, exit_status)

\* the file argument 1 names (for an invocation with at least 2 arguments)
TargetFile == Lookup(fs, argv[2])

\* an existing readable text file
ReadableText(f) == f.kind = "file" /\ f.readable /\ IsValidUtf8(f.bytes)

IsPreview(line) == line.fmt = PreviewMsg(<<>>).fmt

\* the run printed the header and then a preview line
HasPreview == Len(stdout) = 2 /\ IsPreview(stdout[2])

\* the characters of the preview printed
PreviewChars == Chars(stdout[2].arg)

\* the first n characters of a text
FirstChars(chars, n) == SubSeq(chars, 1, Min(Len(chars), n))

\* the run of the state machine ends as main, taken as a function, says
RunMainAgrees == Done => Observed = RunMain(argv, fs)

\* two invocations agree on argument 1: both have it and it is the same, or
\* neither has it
SameArg1(a, b) ==
    \/ Len(a) < 2 /\ Len(b) < 2
    \/ Len(a) >= 2 /\ Len(b) >= 2 /\ a[2] = b[2]

---------------------------------------------------------------------------
(* The properties *)

\* C1: an invocation with fewer than 2 arguments writes the usage message to
\* the error stream, exits with status 1, writes nothing to standard output
\* and reads no file.
UsageOnMissingArgument ==
    Len(argv) < 2 =>
        /\ stdout = <<>>
        /\ fsops = <<>>
        /\ Done => stderr = <<UsageMsg>> /\ exit_status = UsageExitCode

\* C2: with at least 2 arguments and argument 1 naming a readable text file of
\* L characters, the run prints the header naming the path, then a preview of
\* exactly min(L, 100) characters from the start of the file, and exits 0.
PreviewOfReadableFile ==
    (Done /\ Len(argv) >= 2 /\ ReadableText(TargetFile)) =>
        /\ HasPreview
        /\ stdout[1] = HeaderMsg(argv[2])
        /\ PreviewChars = FirstChars(Chars(TargetFile.bytes), PreviewLimit)
        /\ exit_status = SuccessExitCode

\* C3: for a file of 100 characters or more, multi-byte characters included,
\* the preview is exactly its first 100 characters.
LongFilePreviewIsFirst100Chars ==
    (HasPreview /\ Len(Chars(TargetFile.bytes)) >= PreviewLimit) =>
        PreviewChars = SubSeq(Chars(TargetFile.bytes), 1, PreviewLimit)

\* C4: for a file shorter than 100 characters (the empty file, and a file of
\* under 100 characters but over 100 bytes, included) the preview is the
\* entire content.
ShortFilePreviewIsWholeContent ==
    (HasPreview /\ Len(Chars(TargetFile.bytes)) < PreviewLimit) =>
        stdout[2].arg = TargetFile.bytes

\* C5: the exit status is 1 exactly when there are fewer than 2 arguments and
\* 0 on every other path; no other status, no abnormal termination.
ExitStatusByArgumentCount ==
    Done => exit_status = (IF Len(argv) < 2 THEN UsageExitCode ELSE SuccessExitCode)

\* C6: when the read of the file at argument 1 fails, whatever the cause, the
\* run prints the header, then the one fallback message, no preview, and
\* exits with status 0.
FallbackOnFailedRead ==
    (fsops # <<>> /\ ~contents.ok) =>
        /\ Len(argv) >= 2
        /\ contents.err \in {"NotFound", "PermissionDenied", "InvalidData"}
        /\ stderr = <<>>
        /\ stdout \in {<<HeaderMsg(argv[2])>>, <<HeaderMsg(argv[2]), FallbackMsg>>}
        /\ exit_status \in {NoStatus, SuccessExitCode}
        /\ Done => stdout = <<HeaderMsg(argv[2]), FallbackMsg>>
                   /\ exit_status = SuccessExitCode

\* a run has read a file that is not valid text, failed, and exited
FailedReadExited ==
    /\ Done
    /\ fsops # <<>>
    /\ ~contents.ok
    /\ contents.err = "InvalidData"
    /\ Len(argv) > 2
    /\ stdout = <<HeaderMsg(argv[2]), FallbackMsg>>

\* C7: the error stream receives the usage message on the missing-argument
\* path and nothing otherwise.
StderrOnlyUsage ==
    /\ Len(argv) >= 2 => stderr = <<>>
    /\ Len(argv) < 2 => stderr \in {<<>>, <<UsageMsg>>}

\* C8: no run changes the file system, and the only file operation a run
\* performs is a single read of the file argument 1 names (none on the
\* missing-argument path).
NoFilesystemMutation ==
    /\ [][fs' = fs]_vars
    /\ [](fsops = <<>> \/ (Len(argv) >= 2 /\ fsops = <<ReadOp(argv[2])>>))

\* a run has read a text file longer than the preview and exited
LongFileReadExited ==
    /\ Done
    /\ fsops = <<ReadOp(PathA)>>
    /\ contents.ok
    /\ fs[PathA].bytes = contents.text
    /\ Len(contents.text) > PreviewLimit

\* C9: with at least 2 arguments, the header is on standard output before the
\* read, the file is read at most once, and exactly one of the preview and
\* the fallback message follows the header.
HeaderThenReadThenOneMessage ==
    Len(argv) >= 2 =>
        /\ Len(fsops) <= 1
        /\ fsops # <<>> => Len(stdout) >= 1 /\ stdout[1] = HeaderMsg(argv[2])
        /\ Done => /\ Len(stdout) = 2
                   /\ stdout[1] = HeaderMsg(argv[2])
                   /\ IsPreview(stdout[2]) \/ stdout[2] = FallbackMsg

\* C10: two invocations that agree on argument 1 and on the file system end
\* with the same standard output, error stream and exit status, whatever
\* their other arguments are.
OtherArgumentsIgnored ==
    Done => \A other \in ArgvSet :
                SameArg1(argv, other) => RunMain(other, fs) = Observed

\* what holds of the other arguments: among the invocations whose arguments
\* are all valid Unicode, those that agree on argument 1 and on the file
\* system end alike
UnicodeArgvSet == {a \in ArgvSet : \A i \in 1..Len(a) : IsValidUtf8(a[i])}

OtherUnicodeArgumentsIgnored ==
    (Done /\ argv \in UnicodeArgvSet) =>
        \A other \in UnicodeArgvSet :
            SameArg1(argv, other) => RunMain(other, fs) = Observed

\* what holds of the preview: it is the first min(len, 100) bytes of the file
PreviewIsFirst100Bytes ==
    HasPreview =>
        stdout[2].arg = SubSeq(TargetFile.bytes, 1, Min(Len(TargetFile.bytes), PreviewLimit))

====
